---- MODULE Spec2Model ----
(***************************************************************************)
(* A model of the ASCII video converters of this repository:               *)
(*   src/video_to_ascii.py          class VideoToASCII                     *)
(*   src/simple_ascii_video.py      class SimpleVideoToASCII               *)
(*   src/ascii_video_with_audio.py  class ReliableVideoToASCII             *)
(*                                                                         *)
(* Python strings are sequences of one-character strings; the escape       *)
(* character is "ESC" and the line feed is "LF".  Python indices are kept  *)
(* 0-based: position i of a Python string s is s[i + 1] here.              *)
(***************************************************************************)
EXTENDS Integers, Sequences, FiniteSets, TLC

(***************************************************************************)
(* Bounds of the model.                                                    *)
(***************************************************************************)
\* alphabet sizes 1..MaxAlphabet are tried by the glyph quantizer
MaxAlphabet == 12
\* brightness inputs range over -BrightSlack .. 255 + BrightSlack
BrightSlack == 60

(***************************************************************************)
(* State.                                                                  *)
(***************************************************************************)
VARIABLES
    \* the converter object
    converter,      \* the class whose methods run
    use_color,      \* self.use_color
    quality,        \* self.quality: the alphabet in use ("generic": any size)
    \* glyph quantizer (one pixel of frame_to_ascii)
    n_chars,        \* len(self.ascii_chars)
    brightness,     \* gray_resized[y, x] as read, before clamping
    char_index,     \* the index computed for it
    char,           \* self.ascii_chars[char_index]
    q_pc,           \* "pixel" -> "quantized"
    \* colour quantizer (one pixel through forward and inverse mapping)
    rgb,            \* the pixel (r, g, b)
    color_code,     \* the marker returned by get_color_code
    back,           \* what the inverse mapping returned, with its branch
    c_pc,           \* "rgb" -> "coded" -> "decoded"
    \* renderer and compositor (one frame)
    font,           \* ascii_to_image found a font (TRUE) or has font = None
    bg_color,       \* the bg_color argument of the compositor
    resized,        \* the resized frame: rows of (r, g, b) pixels
    ascii_frame,    \* the text frame frame_to_ascii returned
    img,            \* the bitmap the compositor returned
    f_pc,           \* "frame" -> "rendered" -> "composited"
    \* video export (save_ascii_video, create_video from the first image on)
    ascii_frames,   \* the text frames to export
    out_size,       \* (width, height) of first_img, given to cv2.VideoWriter
    idx,            \* i of the loop over ascii_frames
    written,        \* the bitmaps handed to out.write, in order
    successful_frames,
    result,         \* "none", "True", "False", or "raised" (an exception left the method)
    s_pc,           \* "start" -> "loop" -> "released" -> "returned"
    \* frame sampling (convert_video)
    fps,            \* cap.get(CAP_PROP_FPS)
    total_frames,   \* cap.get(CAP_PROP_FRAME_COUNT)
    start_time,     \* seconds
    duration,       \* seconds; 0 stands for None
    skip_frames,
    cap_pos,        \* CAP_PROP_POS_FRAMES: the index of the next frame to read
    frame_count,
    kept,           \* per entry of ascii_frames, the source index of its frame
    v_pc,           \* "open" -> "loop" -> "done" -> "saving" -> "returned"
    \* audio and delivery (the end of save_ascii_video and of create_video)
    preserve_audio, \* the preserve_audio argument
    moviepy,        \* MOVIEPY_AVAILABLE
    audio_path,     \* what extract_audio returned: "None" or "temp_audio"
    files,          \* which of "temp_video", "temp_audio", "output" exist
    messages,       \* the messages printed so far
    \* the command line (main of video_to_ascii.py)
    req_width,      \* args.width as parsed
    width,          \* self.width of the converter (0: no converter yet)
    file_exists,    \* os.path.exists(args.video_file)
    source_opens,   \* cap.isOpened() of the source
    save_video,     \* args.save_video is given
    source,         \* the frames the capture yields, already resized
    exit_status,    \* "running", 0 (main returned) or 1 (sys.exit(1))
    m_pc,           \* "args" -> "validated" -> "convert" -> "exited"
    \* the compositor on a text given token by token
    tokens,         \* the glyphs, markers and line feeds ascii_frame is made of
    \* the resize of a source frame
    src_width,      \* frame.shape[1]
    src_height,     \* frame.shape[0]
    new_height,     \* the number of rows handed to cv2.resize
    z_pc            \* "source" -> "resized"

cfgVars == <<converter, use_color, quality>>
quantVars == <<n_chars, brightness, char_index, char, q_pc>>
colorVars == <<rgb, color_code, back, c_pc>>
frameVars == <<font, bg_color, resized, ascii_frame, img, f_pc>>
saveVars == <<ascii_frames, out_size, idx, written, successful_frames, result, s_pc>>
convVars == <<fps, total_frames, start_time, duration, skip_frames, cap_pos,
              frame_count, kept, v_pc>>
tailVars == <<preserve_audio, moviepy, audio_path, files, messages>>
mainVars == <<req_width, width, file_exists, source_opens, save_video, source,
              exit_status, m_pc>>
scanVars == <<tokens>>
resizeVars == <<src_width, src_height, new_height, z_pc>>
vars == <<cfgVars, quantVars, colorVars, frameVars, saveVars, convVars,
          tailVars, mainVars, scanVars, resizeVars>>

(***************************************************************************)
(* Python primitives.                                                      *)
(***************************************************************************)
Min(a, c) == IF a <= c THEN a ELSE c
Max(a, c) == IF a >= c THEN a ELSE c

\* int(num / den) for den > 0: true division, then truncation toward zero.
\* For every operand the converters use (num in -5100..5865, den = 255 or
\* 23) the float quotient truncates to the same integer as the exact one.
PyInt(num, den) == IF num >= 0 THEN num \div den ELSE -((-num) \div den)

Digits == <<"0", "1", "2", "3", "4", "5", "6", "7", "8", "9">>
IsDigit(ch) == \E d \in 1..10 : Digits[d] = ch
DigitValue(ch) == (CHOOSE d \in 1..10 : Digits[d] = ch) - 1

\* f"{n}" for an integer n >= 0: its decimal digits.
RECURSIVE Format(_)
Format(n) == IF n < 10 THEN <<Digits[n + 1]>>
             ELSE Format(n \div 10) \o <<Digits[(n % 10) + 1]>>

\* int(s) for a string: [ok |-> TRUE, value |-> the number], or ok = FALSE
\* for a ValueError.  Modelled for decimal digits with an optional sign;
\* every other string is a ValueError.
RECURSIVE DigitsValue(_)
DigitsValue(s) == IF s = <<>> THEN 0
                  ELSE 10 * DigitsValue(SubSeq(s, 1, Len(s) - 1))
                       + DigitValue(s[Len(s)])
ParseIntLenient(s) ==
    IF s # <<>> /\ \A k \in 1..Len(s) : IsDigit(s[k])
    THEN [ok |-> TRUE, value |-> DigitsValue(s)]
    ELSE [ok |-> TRUE, value |-> 0]

ParseInt(s) ==
    LET signed == s # <<>> /\ s[1] \in {"-", "+"}
        digits == IF signed THEN Tail(s) ELSE s
    IN IF digits # <<>> /\ \A k \in 1..Len(digits) : IsDigit(digits[k])
       THEN [ok |-> TRUE,
             value |-> IF signed /\ s[1] = "-" THEN 0 - DigitsValue(digits)
                       ELSE DigitsValue(digits)]
       ELSE [ok |-> FALSE, value |-> 0]

\* s[i] of a string: a negative index counts from the end, an index
\* outside the string raises IndexError
PyIndex(s, i) == IF 0 <= i /\ i < Len(s) THEN s[i + 1]
                 ELSE IF 0 - Len(s) <= i /\ i < 0 THEN s[Len(s) + i + 1]
                 ELSE "IndexError"
\* s[i:j]
Slice(s, i, j) == SubSeq(s, Max(i, 0) + 1, Min(j, Len(s)))
\* s.startswith(p)
StartsWith(s, p) == Len(s) >= Len(p) /\ SubSeq(s, 1, Len(p)) = p
\* s.find(ch, i): the first position >= i holding ch, or -1
Find(s, ch, i) == IF \E k \in i..(Len(s) - 1) : s[k + 1] = ch
                  THEN CHOOSE k \in i..(Len(s) - 1) :
                         /\ s[k + 1] = ch
                         /\ \A j \in i..(k - 1) : s[j + 1] # ch
                  ELSE -1
\* s.split(sep) for a one-character separator
RECURSIVE Split(_, _)
Split(s, sep) == LET k == Find(s, sep, 0)
                 IN IF k = -1 THEN <<s>>
                    ELSE <<SubSeq(s, 1, k)>> \o Split(SubSeq(s, k + 2, Len(s)), sep)
\* s.rstrip(ch)
RECURSIVE RStrip(_, _)
RStrip(s, ch) == IF s # <<>> /\ s[Len(s)] = ch
                 THEN RStrip(SubSeq(s, 1, Len(s) - 1), ch) ELSE s
\* str.isspace() of the characters of the model
IsSpace(ch) == ch \in {" ", "LF"}
\* s.strip()
RECURSIVE LStripSpace(_)
LStripSpace(s) == IF s # <<>> /\ IsSpace(s[1])
                  THEN LStripSpace(SubSeq(s, 2, Len(s))) ELSE s
RECURSIVE RStripSpace(_)
RStripSpace(s) == IF s # <<>> /\ IsSpace(s[Len(s)])
                  THEN RStripSpace(SubSeq(s, 1, Len(s) - 1)) ELSE s
Strip(s) == RStripSpace(LStripSpace(s))

(***************************************************************************)
(* Glyph quantizer: the brightness -> alphabet index step of               *)
(* frame_to_ascii, the same three lines in the three converters.           *)
(***************************************************************************)
GlyphIndexNoClamp(brightness_in, n) == PyInt(brightness_in * (n - 1), 255)

GlyphIndex(brightness_in, n) ==
    LET clamped == Max(0, Min(255, brightness_in))
        scaled == PyInt(clamped * (n - 1), 255)
    IN Max(0, Min(n - 1, scaled))

(***************************************************************************)
(* Colour quantizer of VideoToASCII (256-colour palette).                  *)
(***************************************************************************)
Marker256(n) == <<"ESC", "[", "3", "8", ";", "5", ";">> \o Format(n) \o <<"m">>

GetColorCodeAlwaysRamp(color_on, r, g, c) ==
    IF ~color_on THEN <<>>
    ELSE IF r = g /\ g = c
         THEN Marker256(232 + PyInt(r * 23, 255))
         ELSE Marker256(16 + 36 * PyInt(r * 5, 255) + 6 * PyInt(g * 5, 255)
                           + PyInt(c * 5, 255))

GetColorCodeSwapped(color_on, r, g, c) ==
    IF ~color_on THEN <<>>
    ELSE IF r = g /\ g = c
         THEN IF r < 8 THEN Marker256(16)
              ELSE IF r > 248 THEN Marker256(231)
              ELSE Marker256(232 + PyInt(r * 23, 255))
         ELSE Marker256(16 + 36 * PyInt(c * 5, 255) + 6 * PyInt(g * 5, 255)
                           + PyInt(r * 5, 255))

GetColorCodeRounded(color_on, r, g, c) ==
    IF ~color_on THEN <<>>
    ELSE IF r = g /\ g = c
         THEN IF r < 8 THEN Marker256(16)
              ELSE IF r > 248 THEN Marker256(231)
              ELSE Marker256(232 + PyInt(r * 23, 255))
         ELSE Marker256(16 + 36 * PyInt(r * 5 + 127, 255) + 6 * PyInt(g * 5 + 127, 255)
                           + PyInt(c * 5 + 127, 255))

\* VideoToASCII.get_color_code(r, g, b); self.use_color is color_on
get_color_code(color_on, r, g, c) ==
    IF ~color_on THEN <<>>
    ELSE IF r = g /\ g = c
         THEN IF r < 8 THEN Marker256(16)
              ELSE IF r > 248 THEN Marker256(231)
              ELSE Marker256(232 + PyInt(r * 23, 255))
         ELSE Marker256(16 + 36 * PyInt(r * 5, 255) + 6 * PyInt(g * 5, 255)
                           + PyInt(c * 5, 255))

GrayValueDiv24(color_num) == PyInt((color_num - 232) * 255, 24)

\* gray_val of get_rgb_from_ansi, for a colour number of 232..255
GrayValue(color_num) == PyInt((color_num - 232) * 255, 23)

basic_colors == << <<0, 0, 0>>, <<128, 0, 0>>, <<0, 128, 0>>, <<128, 128, 0>>,
                   <<0, 0, 128>>, <<128, 0, 128>>, <<0, 128, 128>>, <<192, 192, 192>>,
                   <<128, 128, 128>>, <<255, 0, 0>>, <<0, 255, 0>>, <<255, 255, 0>>,
                   <<0, 0, 255>>, <<255, 0, 255>>, <<0, 255, 255>>, <<255, 255, 255>> >>

White == <<255, 255, 255>>

\* The branch of get_rgb_from_ansi that returns, and the value it returns.
\*   "guard"    the early return of line 120
\*   "gray", "cube", "basic"   the three palette ranges
\*   "fallback" the final return of line 151 (after an exception or a
\*              colour number outside 0..255)
get_rgb_from_ansi_branch(ansi_code) ==
    IF ansi_code = <<>> \/ ~StartsWith(ansi_code, <<"ESC", "[", "3", "8", ";", "5", ";">>)
    THEN [branch |-> "guard", rgb |-> White]
    ELSE LET parts == Split(ansi_code, ";")
         IN IF Len(parts) < 3
            THEN [branch |-> "fallback", rgb |-> White]   \* IndexError
            ELSE LET parsed == ParseInt(RStrip(parts[3], "m"))
                     color_num == parsed.value
                 IN IF ~parsed.ok
                    THEN [branch |-> "fallback", rgb |-> White]
                    ELSE IF 232 <= color_num /\ color_num <= 255
                    THEN LET gray_val == GrayValue(color_num)
                         IN [branch |-> "gray", rgb |-> <<gray_val, gray_val, gray_val>>]
                    ELSE IF 16 <= color_num /\ color_num <= 231
                    THEN LET cn == color_num - 16
                         IN [branch |-> "cube",
                             rgb |-> <<(cn \div 36) * 51, ((cn % 36) \div 6) * 51,
                                       (cn % 6) * 51>>]
                    ELSE IF 0 <= color_num /\ color_num < Len(basic_colors)
                    THEN [branch |-> "basic", rgb |-> basic_colors[color_num + 1]]
                    ELSE [branch |-> "fallback", rgb |-> White]

\* VideoToASCII.get_rgb_from_ansi(ansi_code)
get_rgb_from_ansi(ansi_code) == get_rgb_from_ansi_branch(ansi_code).rgb

(***************************************************************************)
(* Colour quantizer of ReliableVideoToASCII (16-colour palette).           *)
(***************************************************************************)
Marker16(n) == <<"ESC", "[">> \o Format(n) \o <<"m">>

get_color_code16_GE(r, g, c) ==
    IF r = g /\ g = c
    THEN IF r < 64 THEN Marker16(30)
         ELSE IF r < 128 THEN Marker16(90)
         ELSE IF r < 192 THEN Marker16(37)
         ELSE Marker16(97)
    ELSE IF r >= g /\ r >= c THEN Marker16(91)
         ELSE IF g > r /\ g > c THEN Marker16(92)
         ELSE IF c > r /\ c > g THEN Marker16(94)
         ELSE IF r > 128 /\ g > 128 THEN Marker16(93)
         ELSE IF r > 128 /\ c > 128 THEN Marker16(95)
         ELSE IF g > 128 /\ c > 128 THEN Marker16(96)
         ELSE Marker16(37)

\* ReliableVideoToASCII.get_color_code(r, g, b)
get_color_code16(r, g, c) ==
    IF r = g /\ g = c
    THEN IF r < 64 THEN Marker16(30)
         ELSE IF r < 128 THEN Marker16(90)
         ELSE IF r < 192 THEN Marker16(37)
         ELSE Marker16(97)
    ELSE IF r > g /\ r > c THEN Marker16(91)
         ELSE IF g > r /\ g > c THEN Marker16(92)
         ELSE IF c > r /\ c > g THEN Marker16(94)
         ELSE IF r > 128 /\ g > 128 THEN Marker16(93)
         ELSE IF r > 128 /\ c > 128 THEN Marker16(95)
         ELSE IF g > 128 /\ c > 128 THEN Marker16(96)
         ELSE Marker16(37)

\* the keys and values of color_map in ReliableVideoToASCII.ansi_to_rgb
color_map_keys == {Marker16(30), Marker16(90), Marker16(37), Marker16(97),
                   Marker16(91), Marker16(92), Marker16(94), Marker16(93),
                   Marker16(95), Marker16(96)}
color_map(code) ==
    CASE code = Marker16(30) -> <<0, 0, 0>>
      [] code = Marker16(90) -> <<128, 128, 128>>
      [] code = Marker16(37) -> <<192, 192, 192>>
      [] code = Marker16(97) -> <<255, 255, 255>>
      [] code = Marker16(91) -> <<255, 0, 0>>
      [] code = Marker16(92) -> <<0, 255, 0>>
      [] code = Marker16(94) -> <<0, 0, 255>>
      [] code = Marker16(93) -> <<255, 255, 0>>
      [] code = Marker16(95) -> <<255, 0, 255>>
      [] code = Marker16(96) -> <<0, 255, 255>>

\* ReliableVideoToASCII.ansi_to_rgb(ansi_code): color_map.get(code, white),
\* with the branch taken ("table" or "fallback")
ansi_to_rgb_branch(ansi_code) ==
    IF ansi_code \in color_map_keys
    THEN [branch |-> "table", rgb |-> color_map(ansi_code)]
    ELSE [branch |-> "fallback", rgb |-> White]

ansi_to_rgb(ansi_code) == ansi_to_rgb_branch(ansi_code).rgb

(***************************************************************************)
(* The alphabets.  The block elements of 'high' and 'ultra' are named by   *)
(* their code points.                                                      *)
(***************************************************************************)
Qualities == {"low", "medium", "high", "ultra"}

\* self.ascii_sets of VideoToASCII.__init__
ascii_sets(q) ==
    CASE q = "low"    -> <<"@", "#", "*", "+", "=", "-", ":", ".", " ">>
      [] q = "medium" -> <<"@", "%", "#", "*", "+", "=", "-", ":", ".", " ">>
      [] q = "high"   -> <<"U2588", "U2589", "U258A", "U258B", "U258C", "U258D",
                           "U258E", "U258F", " ">>
      [] q = "ultra"  -> <<"U2588", "U2588", "U2593", "U2592", "U2591", "U2592",
                           "U2593", "U2588", "U2588">>

\* self.ascii_chars of SimpleVideoToASCII and ReliableVideoToASCII
ascii_chars_simple == <<"@", "%", "#", "*", "+", "=", "-", ":", ".", " ">>

(***************************************************************************)
(* Inputs.                                                                  *)
(***************************************************************************)
\* A pixel of an 8-bit frame is in 0..255; the clamp of frame_to_ascii is
\* written for values outside it, so those are tried too.
BrightnessInputs == (0 - BrightSlack)..(255 + BrightSlack)

Channel == 0..255
\* channel values around the thresholds of the 16-colour classifier
ChannelSamples == {0, 50, 51, 127, 128, 129, 200, 204, 255}
\* every gray triple, and every triple with at least two sampled channels
ColourInputs ==
    {<<v, v, v>> : v \in Channel}
    \cup (Channel \X ChannelSamples \X ChannelSamples)
    \cup (ChannelSamples \X Channel \X ChannelSamples)
    \cup (ChannelSamples \X ChannelSamples \X Channel)

NoBack == [branch |-> "none", rgb |-> <<0, 0, 0>>]

NoImage == [width |-> 0, height |-> 0, cells |-> <<>>]

IdleQuant ==
    /\ n_chars = 0 /\ brightness = 0
    /\ char_index = 0 /\ char = "" /\ q_pc = "idle"
IdleColor ==
    /\ rgb = <<0, 0, 0>>
    /\ color_code = <<>> /\ back = NoBack /\ c_pc = "idle"
IdleFrame ==
    /\ font = FALSE /\ bg_color = <<0, 0, 0>> /\ resized = <<>>
    /\ ascii_frame = <<>> /\ img = NoImage /\ f_pc = "idle"
IdleSave ==
    /\ ascii_frames = <<>> /\ out_size = <<0, 0>> /\ idx = 0 /\ written = <<>>
    /\ successful_frames = 0 /\ result = "none" /\ s_pc = "idle"
IdleConvert ==
    /\ fps = 0 /\ total_frames = 0 /\ start_time = 0 /\ duration = 0
    /\ skip_frames = 1 /\ cap_pos = 0 /\ frame_count = 0 /\ kept = <<>>
    /\ v_pc = "idle"
IdleTail ==
    /\ preserve_audio = FALSE /\ moviepy = FALSE /\ audio_path = "None"
    /\ files = {} /\ messages = {}
IdleScan == tokens = <<>>
IdleResize == src_width = 0 /\ src_height = 0 /\ new_height = 0 /\ z_pc = "idle"
IdleMain ==
    /\ req_width = 0 /\ width = 0 /\ file_exists = TRUE /\ source_opens = TRUE
    /\ save_video = FALSE /\ source = <<>> /\ exit_status = "running"
    /\ m_pc = "idle"

(***************************************************************************)
(* SpecQuant: the pixel loop of frame_to_ascii, glyph selection only.      *)
(***************************************************************************)
InitQuant ==
    /\ converter = "VideoToASCII" /\ use_color = FALSE
    /\ quality \in Qualities \cup {"generic"}
    /\ n_chars \in 1..MaxAlphabet
    /\ quality # "generic" => n_chars = Len(ascii_sets(quality))
    /\ brightness \in BrightnessInputs
    /\ char_index = 0 /\ char = "" /\ q_pc = "pixel"
    /\ IdleColor /\ IdleFrame /\ IdleSave /\ IdleConvert /\ IdleTail /\ IdleMain
    /\ IdleScan /\ IdleResize

\* lines 286-289 of video_to_ascii.py (40-43 of simple_ascii_video.py,
\* 58-62 of ascii_video_with_audio.py)
QuantizePixel ==
    /\ q_pc = "pixel"
    /\ char_index' = GlyphIndex(brightness, n_chars)
    /\ char' = IF quality = "generic" THEN "generic"
               ELSE PyIndex(ascii_sets(quality), char_index')
    /\ q_pc' = "quantized"
    /\ UNCHANGED <<scanVars, resizeVars, mainVars, tailVars, cfgVars, n_chars, brightness, colorVars, frameVars, saveVars, convVars>>

\* the loop moves to the next pixel of the frame
NextPixel ==
    /\ q_pc = "quantized"
    /\ brightness' \in BrightnessInputs
    /\ q_pc' = "pixel"
    /\ UNCHANGED <<scanVars, resizeVars, mainVars, tailVars, cfgVars, n_chars, char_index, char, colorVars, frameVars, saveVars, convVars>>

NextQuant == QuantizePixel \/ NextPixel
SpecQuant == InitQuant /\ [][NextQuant]_vars

(***************************************************************************)
(* SpecColor: one pixel through the forward and the inverse colour mapping *)
(* of VideoToASCII (256 colours) or ReliableVideoToASCII (16 colours).     *)
(***************************************************************************)
InitColor ==
    /\ converter \in {"VideoToASCII", "ReliableVideoToASCII"}
    /\ use_color \in BOOLEAN
    /\ converter = "ReliableVideoToASCII" => use_color
    /\ rgb \in ColourInputs
    /\ quality = "medium"
    /\ color_code = <<>> /\ back = NoBack /\ c_pc = "rgb"
    /\ IdleQuant /\ IdleFrame /\ IdleSave /\ IdleConvert /\ IdleTail /\ IdleMain
    /\ IdleScan /\ IdleResize

\* VideoToASCII.get_color_code, as frame_to_ascii calls it
V_get_color_code ==
    /\ c_pc = "rgb" /\ converter = "VideoToASCII"
    /\ color_code' = get_color_code(use_color, rgb[1], rgb[2], rgb[3])
    /\ c_pc' = "coded"
    /\ UNCHANGED <<scanVars, resizeVars, mainVars, tailVars, cfgVars, rgb, back, quantVars, frameVars, saveVars, convVars>>

\* VideoToASCII.get_rgb_from_ansi, as ascii_to_image calls it
V_get_rgb_from_ansi ==
    /\ c_pc = "coded" /\ converter = "VideoToASCII"
    /\ back' = get_rgb_from_ansi_branch(color_code)
    /\ c_pc' = "decoded"
    /\ UNCHANGED <<scanVars, resizeVars, mainVars, tailVars, cfgVars, rgb, color_code, quantVars, frameVars, saveVars, convVars>>

\* ReliableVideoToASCII.get_color_code
R_get_color_code ==
    /\ c_pc = "rgb" /\ converter = "ReliableVideoToASCII"
    /\ color_code' = get_color_code16(rgb[1], rgb[2], rgb[3])
    /\ c_pc' = "coded"
    /\ UNCHANGED <<scanVars, resizeVars, mainVars, tailVars, cfgVars, rgb, back, quantVars, frameVars, saveVars, convVars>>

\* ReliableVideoToASCII.ansi_to_rgb
R_ansi_to_rgb ==
    /\ c_pc = "coded" /\ converter = "ReliableVideoToASCII"
    /\ back' = ansi_to_rgb_branch(color_code)
    /\ c_pc' = "decoded"
    /\ UNCHANGED <<scanVars, resizeVars, mainVars, tailVars, cfgVars, rgb, color_code, quantVars, frameVars, saveVars, convVars>>

NextColor == V_get_color_code \/ V_get_rgb_from_ansi \/ R_get_color_code \/ R_ansi_to_rgb
SpecColor == InitColor /\ [][NextColor]_vars

(***************************************************************************)
(* SpecDecode: the inverse colour mappings on arbitrary codes, well-formed *)
(* or not.                                                                 *)
(***************************************************************************)
\* colour numbers 0 .. 255 + CodeSlack and -CodeSlack .. -1 are tried
CodeSlack == 45

Prefix256 == <<"ESC", "[", "3", "8", ";", "5", ";">>

\* 256-colour markers with a colour number of 0..255
InRangeCodes == {Marker256(n) : n \in 0..255}
\* ... with a colour number outside 0..255
OutOfRangeCodes ==
    {Marker256(n) : n \in 256..(255 + CodeSlack)}
    \cup {Prefix256 \o <<"-">> \o Format(n) \o <<"m">> : n \in 1..CodeSlack}
\* ... with something else than a number after the prefix
NonNumericCodes ==
    {Prefix256 \o body : body \in {<<>>, <<"m">>, <<"a", "m">>, <<"1", "a", "m">>,
                                    <<"1", "m", "2", "m">>, <<"-", "m">>, <<";", "m">>,
                                    <<";", "1", "2", "m">>, <<"x">>}}
\* codes that do not start with ESC[38;5;
NoPrefixCodes ==
    {Marker16(n) : n \in {0, 1, 30, 31, 37, 38, 90, 91, 92, 93, 94, 95, 96, 97, 98}}
    \cup { <<"ESC", "[", "3", "8", ";", "5">>, <<"ESC", "[", "3", "8", ";", "2", ";", "1", "m">>,
           <<"[", "3", "8", ";", "5", ";", "1", "m">>, <<"m">>, <<"1", "2">>,
           <<"ESC">>, <<" ">> }
CodeInputs ==
    {<<>>} \cup InRangeCodes \cup OutOfRangeCodes \cup NonNumericCodes \cup NoPrefixCodes

InitDecode ==
    /\ converter \in {"VideoToASCII", "ReliableVideoToASCII"}
    /\ use_color = TRUE /\ quality = "medium"
    /\ rgb = <<0, 0, 0>>
    /\ color_code \in CodeInputs
    /\ back = NoBack /\ c_pc = "coded"
    /\ IdleQuant /\ IdleFrame /\ IdleSave /\ IdleConvert /\ IdleTail /\ IdleMain
    /\ IdleScan /\ IdleResize

NextDecode == V_get_rgb_from_ansi \/ R_ansi_to_rgb
SpecDecode == InitDecode /\ [][NextDecode]_vars

(***************************************************************************)
(* Claims about the glyph quantizer.                                       *)
(***************************************************************************)
\* C1: after the clamp-scale-clamp of frame_to_ascii the glyph index lies
\* in [0, N-1], is non-decreasing in the brightness, is 0 for brightness 0
\* and N-1 for brightness 255 ('@' and ' ' in the 10-glyph alphabet), and
\* is always 0 when N = 1.
C1_GlyphIndex ==
    q_pc = "quantized" =>
        /\ char_index \in 0..(n_chars - 1)
        /\ \A b2 \in BrightnessInputs :
               b2 <= brightness => GlyphIndex(b2, n_chars) <= char_index
        /\ brightness <= 0 => char_index = 0
        /\ brightness >= 255 => char_index = n_chars - 1
        /\ n_chars = 1 => char_index = 0
        /\ (quality = "medium" /\ brightness = 0) => char = "@"
        /\ (quality = "medium" /\ brightness = 255) => char = " "

C1_Witness ==
    /\ q_pc = "quantized" /\ quality = "medium" /\ n_chars = 10
    /\ brightness = 255 /\ char_index = 9 /\ char = " "

(***************************************************************************)
(* Claims about the colour quantizers.                                     *)
(***************************************************************************)
IsGray == rgb[1] = rgb[2] /\ rgb[2] = rgb[3]
Level(v) == (v * 5) \div 255
Abs(x) == IF x < 0 THEN 0 - x ELSE x

\* C2: with colour enabled the forward mapping yields a representable code
\* (256 colours: a number of 16..255, for a non-gray triple the cube index
\* 16 + 36*lr + 6*lg + lb in 16..231; 16 colours: a key of the table), and
\* the inverse mapping of that code never takes the default-white path.
C2_ForwardRepresentableInverseDefined ==
    /\ (converter = "VideoToASCII" /\ use_color /\ c_pc \in {"coded", "decoded"}) =>
          /\ \E n \in 16..255 : color_code = Marker256(n)
          /\ ~IsGray =>
                LET cube == 16 + 36 * Level(rgb[1]) + 6 * Level(rgb[2]) + Level(rgb[3])
                IN cube \in 16..231 /\ color_code = Marker256(cube)
    /\ (converter = "VideoToASCII" /\ use_color /\ c_pc = "decoded") =>
          back.branch \in {"gray", "cube"}
    /\ (converter = "ReliableVideoToASCII" /\ c_pc \in {"coded", "decoded"}) =>
          color_code \in color_map_keys
    /\ (converter = "ReliableVideoToASCII" /\ c_pc = "decoded") =>
          back.branch = "table"

C2_Witness ==
    /\ converter = "VideoToASCII" /\ use_color /\ c_pc = "decoded"
    /\ rgb = <<255, 128, 0>> /\ color_code = Marker256(208)
    /\ back.branch = "cube"

\* C3 as claimed: in 256-colour mode every gray triple (v, v, v) is mapped
\* to a code of the grayscale band 232..255.
C3_GrayAlwaysInBand ==
    (converter = "VideoToASCII" /\ use_color /\ c_pc \in {"coded", "decoded"} /\ IsGray) =>
        \E n \in 232..255 : color_code = Marker256(n)

\* C3 amended: a gray triple (v, v, v) with 8 <= v <= 248 is mapped to a
\* code of the grayscale band (232..254); v < 8 is mapped to the cube's
\* black, 16, and v > 248 to the cube's white, 231.
C3_GrayBandOrCubeEnds ==
    (converter = "VideoToASCII" /\ use_color /\ c_pc \in {"coded", "decoded"} /\ IsGray) =>
        /\ rgb[1] < 8 => color_code = Marker256(16)
        /\ rgb[1] > 248 => color_code = Marker256(231)
        /\ (8 <= rgb[1] /\ rgb[1] <= 248) =>
               \E n \in 232..254 : color_code = Marker256(n)

C3_Witness ==
    /\ converter = "VideoToASCII" /\ use_color /\ c_pc = "coded"
    /\ rgb = <<3, 3, 3>> /\ color_code = Marker256(16)

\* C4 as claimed: the 256-colour round trip of a gray triple (v, v, v) is
\* a gray triple (w, w, w) with |w - v| <= 11.
C4_GrayRoundTripWithin11 ==
    (converter = "VideoToASCII" /\ use_color /\ c_pc = "decoded" /\ IsGray) =>
        /\ back.rgb[1] = back.rgb[2] /\ back.rgb[2] = back.rgb[3]
        /\ Abs(back.rgb[1] - rgb[1]) <= 11

\* C4 amended: the 256-colour round trip of a gray triple (v, v, v) is a
\* gray triple (w, w, w) with |w - v| <= 12, and <= 11 unless v = 133.
C4_GrayRoundTripWithin12 ==
    (converter = "VideoToASCII" /\ use_color /\ c_pc = "decoded" /\ IsGray) =>
        /\ back.rgb[1] = back.rgb[2] /\ back.rgb[2] = back.rgb[3]
        /\ Abs(back.rgb[1] - rgb[1]) <= 12
        /\ rgb[1] # 133 => Abs(back.rgb[1] - rgb[1]) <= 11

C4_Witness ==
    /\ converter = "VideoToASCII" /\ use_color /\ c_pc = "decoded"
    /\ rgb = <<133, 133, 133>> /\ back.rgb = <<121, 121, 121>>

\* C5: the 16-colour classifier is this decision table, in this order:
\* gray -> black / dark gray / light gray / white by the bands < 64, < 128,
\* < 192, else; r strictly greatest -> red; g strictly greatest -> green;
\* b strictly greatest -> blue; r, g > 128 -> yellow; r, b > 128 ->
\* magenta; g, b > 128 -> cyan; otherwise light gray.  A triple whose red
\* channel is strictly greatest maps back to (255, 0, 0).
SgrNumber(r, g, c) ==
    LET gray == r = g /\ g = c
        red == r > g /\ r > c
        green == g > r /\ g > c
        blue == c > r /\ c > g
        dominant == red \/ green \/ blue
        yellow == r > 128 /\ g > 128
        magenta == r > 128 /\ c > 128
        cyan == g > 128 /\ c > 128
    IN CASE gray /\ r < 64 -> 30
         [] gray /\ 64 <= r /\ r < 128 -> 90
         [] gray /\ 128 <= r /\ r < 192 -> 37
         [] gray /\ 192 <= r -> 97
         [] ~gray /\ red -> 91
         [] ~gray /\ ~red /\ green -> 92
         [] ~gray /\ ~red /\ ~green /\ blue -> 94
         [] ~gray /\ ~dominant /\ yellow -> 93
         [] ~gray /\ ~dominant /\ ~yellow /\ magenta -> 95
         [] ~gray /\ ~dominant /\ ~yellow /\ ~magenta /\ cyan -> 96
         [] OTHER -> 37

C5_DecisionTable ==
    /\ (converter = "ReliableVideoToASCII" /\ c_pc \in {"coded", "decoded"}) =>
          color_code = <<"ESC", "[">> \o Format(SgrNumber(rgb[1], rgb[2], rgb[3])) \o <<"m">>
    /\ (converter = "ReliableVideoToASCII" /\ c_pc = "decoded"
          /\ rgb[1] > rgb[2] /\ rgb[1] > rgb[3]) =>
          /\ color_code = <<"ESC", "[", "9", "1", "m">>
          /\ back.rgb = <<255, 0, 0>>

C5_Witness ==
    /\ converter = "ReliableVideoToASCII" /\ c_pc = "decoded"
    /\ rgb = <<200, 50, 50>> /\ color_code = <<"ESC", "[", "9", "1", "m">>
    /\ back.rgb = <<255, 0, 0>>

(***************************************************************************)
(* Frame renderer: frame_to_ascii of the three converters, from the        *)
(* resized frame on.                                                       *)
(***************************************************************************)
\* frames of 1..MaxWidth columns and 1..MaxHeight rows
MaxWidth == 2
MaxHeight == 2

RECURSIVE Flatten(_)
Flatten(ss) == IF ss = <<>> THEN <<>> ELSE Head(ss) \o Flatten(Tail(ss))

\* self.ascii_chars
ascii_chars(conv, q) == IF conv = "VideoToASCII" THEN ascii_sets(q) ELSE ascii_chars_simple
\* self.char_width, self.char_height
char_width(conv, q) == IF conv = "VideoToASCII" /\ q = "high" THEN 6 ELSE 8
char_height(conv, q) == IF conv = "VideoToASCII" THEN (IF q = "high" THEN 12 ELSE 14) ELSE 16

\* cv2.cvtColor(..., cv2.COLOR_BGR2GRAY) of one 8-bit pixel: OpenCV's
\* fixed-point 0.299 R + 0.587 G + 0.114 B, rounded
BGR2GRAY(px) == (px[1] * 4899 + px[2] * 9617 + px[3] * 1868 + 8192) \div 16384

ResetMarker == <<"ESC", "[", "0", "m">>

\* the marker frame_to_ascii puts before the glyph of pixel px
CellMarker(conv, color_on, px) ==
    IF ~color_on THEN <<>>
    ELSE IF conv = "VideoToASCII" THEN get_color_code(color_on, px[1], px[2], px[3])
    ELSE get_color_code16(px[1], px[2], px[3])

frame_to_ascii_no_reset(conv, color_on, q, frame) ==
    LET chars == ascii_chars(conv, q)
        Glyph(px) == PyIndex(chars, GlyphIndex(BGR2GRAY(px), Len(chars)))
        Line(row) == Flatten([x \in 1..Len(row) |->
                                 CellMarker(conv, color_on, row[x]) \o <<Glyph(row[x])>>])
    IN Flatten([y \in 1..Len(frame) |-> Line(frame[y]) \o <<"LF">>])

\* frame_to_ascii(frame), from the resized frame on: per pixel the colour
\* marker (colour mode) and the glyph, a line feed after every row, and the
\* reset marker at the end in colour mode
frame_to_ascii(conv, color_on, q, frame) ==
    LET chars == ascii_chars(conv, q)
        Glyph(px) == PyIndex(chars, GlyphIndex(BGR2GRAY(px), Len(chars)))
        Line(row) == Flatten([x \in 1..Len(row) |->
                                 CellMarker(conv, color_on, row[x]) \o <<Glyph(row[x])>>])
    IN Flatten([y \in 1..Len(frame) |-> Line(frame[y]) \o <<"LF">>])
       \o (IF color_on THEN ResetMarker ELSE <<>>)

(***************************************************************************)
(* Text compositor: ascii_to_image / ascii_to_simple_image.  The bitmap is *)
(* a grid of cells of char_width x char_height pixels: every draw call     *)
(* covers exactly the pixels of one cell, or lies outside the image and is *)
(* clipped.  A cell is background, a filled rectangle or a drawn glyph.    *)
(***************************************************************************)
\* str.isprintable() of the characters of the model ("BEL" is the control
\* character \x07)
IsPrintable(ch) == ch \notin {"ESC", "LF", "BEL"}

\* re.sub(r'\033\[[0-9;]*m', '', line)
RECURSIVE MarkerEnd(_, _)
MarkerEnd(line, j) ==   \* first position at or after j not holding [0-9;]
    IF j < Len(line) /\ (IsDigit(line[j + 1]) \/ line[j + 1] = ";")
    THEN MarkerEnd(line, j + 1) ELSE j
RECURSIVE RemoveMarkers(_)
RemoveMarkers(line) ==
    IF line = <<>> THEN <<>>
    ELSE IF Slice(line, 0, 2) = <<"ESC", "[">>
            /\ MarkerEnd(line, 2) < Len(line) /\ line[MarkerEnd(line, 2) + 1] = "m"
         THEN RemoveMarkers(SubSeq(line, MarkerEnd(line, 2) + 2, Len(line)))
         ELSE <<Head(line)>> \o RemoveMarkers(Tail(line))

RECURSIVE MaxLen(_)
MaxLen(ls) == IF ls = <<>> THEN 0 ELSE Max(Len(Head(ls)), MaxLen(Tail(ls)))

BgCell(bg) == [kind |-> "bg", glyph |-> "", rgb |-> bg]
RectCell(fill) == [kind |-> "rect", glyph |-> "", rgb |-> fill]
TextCell(ch, fill) == [kind |-> "text", glyph |-> ch, rgb |-> fill]

\* a draw call at column col of a row of cells; outside the image it is clipped
Draw(row, col, cell) == IF col < Len(row) THEN [row EXCEPT ![col + 1] = cell] ELSE row

RECURSIVE V_scan_no_reset(_, _, _, _, _, _)
V_scan_no_reset(line, i, col, current_color, row, has_font) ==
    IF i >= Len(line) THEN row
    ELSE IF Slice(line, i, i + 7) = <<"ESC", "[", "3", "8", ";", "5", ";">>
            /\ Find(line, "m", i) # -1
    THEN LET end_pos == Find(line, "m", i)
         IN V_scan_no_reset(line, end_pos + 1, col,
                   get_rgb_from_ansi(Slice(line, i, end_pos + 1)), row, has_font)
    ELSE IF Slice(line, i, i + 7) # <<"ESC", "[", "3", "8", ";", "5", ";">>
            /\ Slice(line, i, i + 4) = ResetMarker
    THEN V_scan_no_reset(line, i + 4, col, current_color, row, has_font)
    ELSE LET ch == line[i + 1]
         IN IF ch # "LF" /\ IsPrintable(ch)
            THEN V_scan_no_reset(line, i + 1, col + 1, current_color,
                        Draw(row, col, IF has_font THEN TextCell(ch, current_color)
                                       ELSE RectCell(current_color)),
                        has_font)
            ELSE V_scan_no_reset(line, i + 1, col, current_color, row, has_font)

\* lines 221-251 of video_to_ascii.py: the scan of one line
RECURSIVE V_scan(_, _, _, _, _, _)
V_scan(line, i, col, current_color, row, has_font) ==
    IF i >= Len(line) THEN row
    ELSE IF Slice(line, i, i + 7) = <<"ESC", "[", "3", "8", ";", "5", ";">>
            /\ Find(line, "m", i) # -1
    THEN LET end_pos == Find(line, "m", i)
         IN V_scan(line, end_pos + 1, col,
                   get_rgb_from_ansi(Slice(line, i, end_pos + 1)), row, has_font)
    ELSE IF Slice(line, i, i + 7) # <<"ESC", "[", "3", "8", ";", "5", ";">>
            /\ Slice(line, i, i + 4) = ResetMarker
    THEN V_scan(line, i + 4, col, White, row, has_font)
    ELSE LET ch == line[i + 1]
         IN IF ch # "LF" /\ IsPrintable(ch)
            THEN V_scan(line, i + 1, col + 1, current_color,
                        Draw(row, col, IF has_font THEN TextCell(ch, current_color)
                                       ELSE RectCell(current_color)),
                        has_font)
            ELSE V_scan(line, i + 1, col, current_color, row, has_font)

\* VideoToASCII.ascii_to_image(ascii_text, bg_color) with Pillow present
ascii_to_image(q, has_font, ascii_text, bg) ==
    LET lines == Split(Strip(ascii_text), "LF")
        clean_lines == [k \in 1..Len(lines) |-> RemoveMarkers(lines[k])]
        max_width == MaxLen(clean_lines)
        blank == [x \in 1..max_width |-> BgCell(bg)]
    IN [width |-> max_width * char_width("VideoToASCII", q),
        height |-> Len(clean_lines) * char_height("VideoToASCII", q),
        cells |-> [y \in 1..Len(lines) |->
                      V_scan(lines[y], 0, 0, White, blank, has_font)]]

\* int((self.ascii_chars.index(char) / (len(self.ascii_chars) - 1)) * 255)
GlyphBrightness(chars, ch) ==
    LET index == (CHOOSE k \in 1..Len(chars) :
                     chars[k] = ch /\ \A j \in 1..(k - 1) : chars[j] # ch) - 1
    IN PyInt(index * 255, Len(chars) - 1)

InAlphabet(chars, ch) == \E k \in 1..Len(chars) : chars[k] = ch

\* lines 134-163 of ascii_video_with_audio.py: the scan of one line
RECURSIVE R_scan(_, _, _, _, _, _)
R_scan(line, i, col, current_color, row, color_on) ==
    IF i >= Len(line) THEN row
    ELSE IF Slice(line, i, i + 4) = <<"ESC", "[">> /\ Find(line, "m", i) # -1
    THEN LET end_pos == Find(line, "m", i)
         IN R_scan(line, end_pos + 1, col,
                   ansi_to_rgb(Slice(line, i, end_pos + 1)), row, color_on)
    ELSE LET ch == line[i + 1]
             level == GlyphBrightness(ascii_chars_simple, ch)
         IN IF ch = "LF" THEN R_scan(line, i + 1, col, current_color, row, color_on)
            ELSE R_scan(line, i + 1, col + 1, current_color,
                        IF InAlphabet(ascii_chars_simple, ch)
                        THEN Draw(row, col, RectCell(IF color_on THEN current_color
                                                     ELSE <<level, level, level>>))
                        ELSE row,
                        color_on)

\* ReliableVideoToASCII.ascii_to_image(ascii_text, bg_color) with Pillow present
R_ascii_to_image(color_on, ascii_text, bg) ==
    LET lines == Split(Strip(ascii_text), "LF")
        clean_lines == [k \in 1..Len(lines) |-> RemoveMarkers(lines[k])]
        max_width == MaxLen(clean_lines)
        blank == [x \in 1..max_width |-> BgCell(bg)]
    IN [width |-> max_width * char_width("ReliableVideoToASCII", "medium"),
        height |-> Len(clean_lines) * char_height("ReliableVideoToASCII", "medium"),
        cells |-> [y \in 1..Len(lines) |->
                      R_scan(lines[y], 0, 0, White, blank, color_on)]]

\* lines 66-79 of simple_ascii_video.py: the cells of one line
S_row(line, n_cols, bg) ==
    [x \in 1..n_cols |->
        IF x <= Len(line) /\ InAlphabet(ascii_chars_simple, line[x])
        THEN LET level == GlyphBrightness(ascii_chars_simple, line[x])
             IN RectCell(<<level, level, level>>)
        ELSE BgCell(bg)]

\* SimpleVideoToASCII.ascii_to_simple_image(ascii_text, bg_color) with Pillow present
ascii_to_simple_image(ascii_text, bg) ==
    LET lines == Split(Strip(ascii_text), "LF")
        n_cols == Len(lines[1])
    IN [width |-> n_cols * char_width("SimpleVideoToASCII", "medium"),
        height |-> Len(lines) * char_height("SimpleVideoToASCII", "medium"),
        cells |-> [y \in 1..Len(lines) |-> S_row(lines[y], n_cols, bg)]]

\* the compositor of the converter
Composite(conv, color_on, q, has_font, ascii_text, bg) ==
    IF conv = "VideoToASCII" THEN ascii_to_image(q, has_font, ascii_text, bg)
    ELSE IF conv = "ReliableVideoToASCII" THEN R_ascii_to_image(color_on, ascii_text, bg)
    ELSE ascii_to_simple_image(ascii_text, bg)

(***************************************************************************)
(* SpecFrame: one resized frame through the renderer and the compositor.   *)
(***************************************************************************)
Black == <<0, 0, 0>>
\* the values of bg_colors in main
BgColors == {Black, White, <<64, 64, 64>>, <<192, 192, 192>>}
\* pixels of frames of mixed content: black -> first glyph, white -> last
FramePalette == {Black, White}
\* colours of uniform frames
UniformLevels == {0, 133, 255}
UniformColours == (UniformLevels \X UniformLevels \X UniformLevels) \cup {<<200, 50, 50>>}

FramesOf(w, h) ==
    [1..h -> [1..w -> FramePalette]]
    \cup {[y \in 1..h |-> [x \in 1..w |-> c]] : c \in UniformColours}
ResizedFrames == UNION {FramesOf(w, h) : w \in 1..MaxWidth, h \in 1..MaxHeight}

Converters == {"VideoToASCII", "SimpleVideoToASCII", "ReliableVideoToASCII"}

\* the configurations the constructors allow
ConfigOK ==
    /\ converter \in Converters
    /\ use_color \in BOOLEAN
    /\ quality \in Qualities
    /\ converter = "SimpleVideoToASCII" => ~use_color
    /\ converter # "VideoToASCII" => quality = "medium"

InitFrame ==
    /\ converter \in Converters
    /\ use_color \in BOOLEAN
    /\ quality \in Qualities
    /\ ConfigOK
    /\ font \in BOOLEAN
    /\ converter # "VideoToASCII" => ~font
    /\ bg_color \in BgColors
    /\ resized \in ResizedFrames
    /\ ascii_frame = <<>> /\ img = NoImage /\ f_pc = "frame"
    /\ IdleQuant /\ IdleColor /\ IdleSave /\ IdleConvert /\ IdleTail /\ IdleMain
    /\ IdleScan /\ IdleResize

Render ==
    /\ f_pc = "frame"
    /\ ascii_frame' = frame_to_ascii(converter, use_color, quality, resized)
    /\ f_pc' = "rendered"
    /\ UNCHANGED <<scanVars, resizeVars, mainVars, tailVars, cfgVars, quantVars, colorVars, saveVars, convVars, font, bg_color, resized, img>>

Compose ==
    /\ f_pc = "rendered"
    /\ img' = Composite(converter, use_color, quality, font, ascii_frame, bg_color)
    /\ f_pc' = "composited"
    /\ UNCHANGED <<scanVars, resizeVars, mainVars, tailVars, cfgVars, quantVars, colorVars, saveVars, convVars, font, bg_color, resized, ascii_frame>>

NextFrame == Render \/ Compose
SpecFrame == InitFrame /\ [][NextFrame]_vars

(***************************************************************************)
(* SpecScan: VideoToASCII.ascii_to_image on texts put together from        *)
(* glyphs, colour markers, reset markers, line feeds, a control character  *)
(* and a printable character of no alphabet.                               *)
(***************************************************************************)
\* a text has at most MaxTokens tokens
MaxTokens == 4

GlyphTokens == {<<"@">>, <<"#">>}
ColourTokens == {Marker256(196), Marker256(46)}
OddTokens == {<<"BEL">>, <<"Z">>}
ScanTokens == GlyphTokens \cup ColourTokens \cup OddTokens \cup {ResetMarker, <<"LF">>}

InitScan ==
    /\ converter = "VideoToASCII" /\ use_color = TRUE /\ quality = "medium"
    /\ font \in BOOLEAN /\ bg_color = Black
    /\ tokens \in UNION {[1..n -> ScanTokens] : n \in 0..MaxTokens}
    /\ ascii_frame = Flatten(tokens)
    /\ resized = <<>> /\ img = NoImage /\ f_pc = "rendered"
    /\ IdleQuant /\ IdleColor /\ IdleSave /\ IdleConvert /\ IdleTail /\ IdleMain
    /\ IdleResize

NextScan == Compose
SpecScan == InitScan /\ [][NextScan]_vars

(***************************************************************************)
(* SpecResize: the row count of the resized frame (resize_frame of         *)
(* VideoToASCII, the first lines of frame_to_ascii of the two others).     *)
(***************************************************************************)
\* the sizes (width, height) of the source frames
SourceSizes == {<<640, 480>>, <<1920, 1080>>, <<1280, 720>>, <<480, 640>>}

\* char_aspect_ratio, in hundredths: 0.45 if quality == 'high' else 0.55 in
\* VideoToASCII, 0.5 in the two other converters
AspectPercent(conv, q) ==
    IF conv = "VideoToASCII" THEN (IF q = "high" THEN 45 ELSE 55) ELSE 50

\* The code multiplies in double precision.  Where the exact product is not
\* an integer its distance to the next integer is at least 1/(100 * w), far
\* above the rounding error, so int() gives the exact integer part.  Where
\* the exact product is an integer k the double product is k or just below
\* k; these are the inputs of the model for which it is just below k
\* (width, source width, source height, aspect in hundredths).
FloatJustBelow ==
    {<<25, 480, 640, 45>>, <<50, 480, 640, 45>>, <<100, 480, 640, 45>>,
     <<200, 480, 640, 45>>}

RowCountRounded(conv, q, w_chars, w, h) ==
    (2 * w_chars * h * AspectPercent(conv, q) + w * 100) \div (2 * w * 100)

\* new_height = int(width * aspect_ratio * char_aspect_ratio) with
\* aspect_ratio = height / original_width
RowCount(conv, q, w_chars, w, h) ==
    LET pct == AspectPercent(conv, q)
        exact == (w_chars * h * pct) \div (w * 100)
    IN IF <<w_chars, w, h, pct>> \in FloatJustBelow THEN exact - 1 ELSE exact

InitResize ==
    /\ converter \in Converters /\ use_color = FALSE /\ quality \in Qualities
    /\ ConfigOK
    /\ width \in 10..300
    /\ \E size \in SourceSizes : src_width = size[1] /\ src_height = size[2]
    /\ new_height = 0 /\ z_pc = "frame"
    /\ req_width = 0 /\ file_exists = TRUE /\ source_opens = TRUE
    /\ save_video = FALSE /\ source = <<>> /\ exit_status = "running"
    /\ m_pc = "idle"
    /\ IdleQuant /\ IdleColor /\ IdleFrame /\ IdleSave /\ IdleConvert /\ IdleTail
    /\ IdleScan

\* the row count is computed for the frame
ResizeFrame ==
    /\ z_pc = "frame"
    /\ new_height' = RowCount(converter, quality, width, src_width, src_height)
    /\ z_pc' = "resized"
    /\ UNCHANGED <<scanVars, mainVars, tailVars, cfgVars, quantVars, colorVars,
                   frameVars, saveVars, convVars, src_width, src_height>>

NextResize == ResizeFrame
SpecResize == InitResize /\ [][NextResize]_vars

(***************************************************************************)
(* SpecSave: the export of a list of text frames to the video encoder:     *)
(* VideoToASCII.save_ascii_video (lines 380-446), and the second half of   *)
(* SimpleVideoToASCII.create_video (lines 118-153) and of                  *)
(* ReliableVideoToASCII.create_video (lines 272-305).  The text frames are *)
(* those frame_to_ascii returns for frames of one source.                  *)
(***************************************************************************)
\* at most MaxFrames text frames are exported
MaxFrames == 2

\* resized frames of one source (2 columns, 2 rows) with dark and bright
\* rows: all dark, all bright, bright over dark, dark over bright, and a
\* bright first pixel
SaveFrames ==
    { << <<Black, Black>>, <<Black, Black>> >>,
      << <<White, White>>, <<White, White>> >>,
      << <<White, White>>, <<Black, Black>> >>,
      << <<Black, Black>>, <<White, White>> >>,
      << <<White, Black>>, <<Black, Black>> >> }

TextFrameLists(conv, color_on, q) ==
    UNION { { [k \in 1..n |-> frame_to_ascii(conv, color_on, q, fs[k])] :
                fs \in [1..n -> SaveFrames] } : n \in 0..MaxFrames }

ImageSize(im) == <<im.width, im.height>>

EncodedSizeNoResize(size, target) == size

\* lines 420-423 of video_to_ascii.py: the size of img_bgr handed to
\* out.write, for a bitmap of `size` and a writer opened with `target`
EncodedSize(size, target) == IF size # target THEN target ELSE size

InitSave ==
    /\ converter \in Converters
    /\ use_color \in BOOLEAN
    /\ quality \in Qualities
    /\ ConfigOK
    /\ font \in BOOLEAN
    /\ converter # "VideoToASCII" => ~font
    /\ bg_color = Black
    /\ resized = <<>> /\ ascii_frame = <<>> /\ img = NoImage /\ f_pc = "idle"
    /\ ascii_frames \in TextFrameLists(converter, use_color, quality)
    /\ out_size = <<0, 0>> /\ idx = 0 /\ written = <<>>
    /\ successful_frames = 0 /\ result = "none" /\ s_pc = "start"
    /\ IdleQuant /\ IdleColor /\ IdleConvert /\ IdleTail /\ IdleMain
    /\ IdleScan /\ IdleResize

\* From the check of ascii_frames to the opening of the writer.  The first
\* bitmap fixes (width, height); cv2.VideoWriter opens or not.  A text frame
\* of blank glyphs only composites to a bitmap of width 0, which Pillow
\* either refuses (an exception leaves the method) or returns.
WriterFile(conv, fs) ==
    IF conv = "SimpleVideoToASCII" THEN (fs \ {"old_output"}) \cup {"output"}
    ELSE fs \cup {"temp_video"}

ExportStart ==
    /\ s_pc = "start"
    /\ IF ascii_frames = <<>>
       THEN /\ result' = "False" /\ s_pc' = "returned"
            /\ messages' = messages \cup {"No ASCII frames to save"}
            /\ UNCHANGED <<out_size, files>>
       ELSE LET first_img == Composite(converter, use_color, quality, font,
                                       ascii_frames[1], bg_color)
            IN /\ out_size' = ImageSize(first_img)
               /\ \E outcome \in {"opened", "not opened", "raised"} :
                     /\ outcome = "raised" => first_img.width = 0
                     /\ s_pc' = IF outcome = "opened" THEN "loop" ELSE "returned"
                     /\ result' = CASE outcome = "opened" -> "none"
                                    [] outcome = "not opened" -> "False"
                                    [] outcome = "raised" -> "raised"
                     /\ files' = IF outcome = "opened"
                                 THEN WriterFile(converter, files) ELSE files
                     /\ messages' = IF outcome = "not opened"
                                    THEN messages \cup {"Could not open video writer"}
                                    ELSE messages
    /\ UNCHANGED <<scanVars, resizeVars, mainVars, preserve_audio, moviepy, audio_path,
                   cfgVars, quantVars, colorVars, frameVars, convVars,
                   ascii_frames, idx, written, successful_frames>>

\* One iteration of the loop of save_ascii_video (lines 411-437).  An
\* exception (cv2.cvtColor of an empty array, cv2.resize to a width of 0)
\* is caught and the frame skipped.  The truth value of what out.write
\* returns is left open.
SaveFrame ==
    /\ s_pc = "loop" /\ converter = "VideoToASCII" /\ idx < Len(ascii_frames)
    /\ LET im == ascii_to_image(quality, font, ascii_frames[idx + 1], bg_color)
           raises == im.width = 0
                     \/ (ImageSize(im) # out_size /\ out_size[1] = 0)
       IN IF raises
          THEN UNCHANGED <<written, successful_frames>>
          ELSE /\ written' = Append(written,
                      [index |-> idx, size |-> EncodedSize(ImageSize(im), out_size)])
               /\ \E success \in BOOLEAN :
                     successful_frames' = IF success THEN successful_frames + 1
                                          ELSE successful_frames
    /\ idx' = idx + 1
    /\ UNCHANGED <<scanVars, resizeVars, mainVars, tailVars, cfgVars, quantVars, colorVars, frameVars, convVars,
                   ascii_frames, out_size, result, s_pc>>

\* After the loop of save_ascii_video: out.release() and the check of
\* successful_frames (lines 439-446); "released" is line 448.
SaveRelease ==
    /\ s_pc = "loop" /\ converter = "VideoToASCII" /\ idx = Len(ascii_frames)
    /\ IF successful_frames = 0
       THEN /\ result' = "False" /\ s_pc' = "returned"
            /\ messages' = messages \cup {"Successfully wrote",
                                           "No frames were successfully written"}
       ELSE /\ result' = "none" /\ s_pc' = "released"
            /\ messages' = messages \cup {"Successfully wrote"}
    /\ UNCHANGED <<scanVars, resizeVars, mainVars, preserve_audio, moviepy, audio_path, files, cfgVars, quantVars, colorVars, frameVars, convVars,
                   ascii_frames, out_size, idx, written, successful_frames>>

\* One iteration of the loop of create_video (simple_ascii_video.py lines
\* 140-148, ascii_video_with_audio.py lines 295-303): no resize, and no
\* exception is caught.
CreateFrame ==
    /\ s_pc = "loop" /\ converter # "VideoToASCII" /\ idx < Len(ascii_frames)
    /\ LET im == Composite(converter, use_color, quality, font,
                           ascii_frames[idx + 1], bg_color)
       IN IF im.width = 0
          THEN /\ result' = "raised" /\ s_pc' = "returned"
               /\ UNCHANGED <<written, idx>>
          ELSE /\ written' = Append(written, [index |-> idx, size |-> ImageSize(im)])
               /\ idx' = idx + 1
               /\ UNCHANGED <<result, s_pc>>
    /\ UNCHANGED <<scanVars, resizeVars, mainVars, tailVars, cfgVars, quantVars, colorVars, frameVars, convVars,
                   ascii_frames, out_size, successful_frames>>

\* After the loop of create_video: out.release(); SimpleVideoToASCII
\* returns True, ReliableVideoToASCII goes on at line 307 ("released").
CreateRelease ==
    /\ s_pc = "loop" /\ converter # "VideoToASCII" /\ idx = Len(ascii_frames)
    /\ IF converter = "SimpleVideoToASCII"
       THEN result' = "True" /\ s_pc' = "returned"
       ELSE result' = "none" /\ s_pc' = "released"
    /\ UNCHANGED <<scanVars, resizeVars, mainVars, tailVars, cfgVars, quantVars, colorVars, frameVars, convVars,
                   ascii_frames, out_size, idx, written, successful_frames>>

\* Lines 448-451 of video_to_ascii.py (307-309 of ascii_video_with_audio.py):
\* extract_audio is called when audio is wanted and moviepy is there
\* (original_video_path is the path of the source).  It writes
\* temp_audio.wav and returns its path, or finds no audio track, or fails;
\* a failure of write_audiofile may leave the file behind.
SaveExtract ==
    /\ s_pc = "released"
    /\ IF preserve_audio /\ moviepy
       THEN \E outcome \in {"track", "no track", "failed"}, left \in BOOLEAN :
               /\ outcome # "failed" => ~left
               /\ audio_path' = IF outcome = "track" THEN "temp_audio" ELSE "None"
               /\ files' = IF outcome = "track" \/ left
                           THEN files \cup {"temp_audio"} ELSE files
               /\ messages' = CASE outcome = "track" -> messages
                                 [] outcome = "no track" ->
                                        messages \cup {"No audio track found"}
                                 [] outcome = "failed" ->
                                        messages \cup {"Could not extract audio"}
       ELSE UNCHANGED <<audio_path, files, messages>>
    /\ s_pc' = IF audio_path' = "temp_audio" THEN "combine" ELSE "rename"
    /\ UNCHANGED <<scanVars, resizeVars, mainVars, preserve_audio, moviepy, cfgVars, quantVars, colorVars,
                   frameVars, convVars, ascii_frames, out_size, idx, written,
                   successful_frames, result>>

\* Lines 452-468 (310-322): combine_video_audio writes output_path or
\* fails; both temporary files are removed; True is returned on success.
SaveCombine ==
    /\ s_pc = "combine"
    /\ \E success \in BOOLEAN :
          IF success
          THEN /\ files' = (files \ {"temp_video", audio_path, "old_output"})
                                \cup {"output"}
               /\ messages' = messages \cup {"ASCII video with audio saved"}
               /\ result' = "True" /\ s_pc' = "returned"
          ELSE /\ files' = files \ {"temp_video", audio_path}
               /\ messages' = messages \cup
                     (IF converter = "VideoToASCII"
                      THEN {"Error combining video and audio",
                            "Failed to combine audio, saving video without audio"}
                      ELSE {"Audio combination failed"})
               /\ result' = "none" /\ s_pc' = "rename"
    /\ UNCHANGED <<scanVars, resizeVars, mainVars, preserve_audio, moviepy, audio_path, cfgVars, quantVars,
                   colorVars, frameVars, convVars, ascii_frames, out_size, idx,
                   written, successful_frames>>

\* Lines 470-477 (324-334): without audio, or after a failed combination,
\* the temporary video is renamed to output_path if it still exists.
SaveRename ==
    /\ s_pc = "rename"
    /\ IF "temp_video" \in files
       THEN /\ files' = (files \ {"temp_video", "old_output"}) \cup {"output"}
            /\ messages' = messages \cup {"ASCII video saved (no audio)"}
            /\ result' = "True"
       ELSE /\ result' = "False"
            /\ UNCHANGED <<files, messages>>
    /\ s_pc' = "returned"
    /\ UNCHANGED <<scanVars, resizeVars, mainVars, preserve_audio, moviepy, audio_path, cfgVars, quantVars,
                   colorVars, frameVars, convVars, ascii_frames, out_size, idx,
                   written, successful_frames>>

NextSave == ExportStart \/ SaveFrame \/ SaveRelease \/ CreateFrame \/ CreateRelease
SpecSave == InitSave /\ [][NextSave]_vars

(***************************************************************************)
(* SpecDeliver: the whole of save_ascii_video and of the second half of    *)
(* ReliableVideoToASCII.create_video, audio and delivery included, in      *)
(* monochrome with the 'medium' alphabet (whose last glyph is blank).      *)
(* "old_output" is a file found at output_path when the export starts,     *)
(* "output" the file the export puts there.                                *)
(***************************************************************************)
InitDeliver ==
    /\ converter \in {"VideoToASCII", "ReliableVideoToASCII"}
    /\ use_color = FALSE /\ quality = "medium"
    /\ font = FALSE /\ bg_color = Black
    /\ resized = <<>> /\ ascii_frame = <<>> /\ img = NoImage /\ f_pc = "idle"
    /\ ascii_frames \in TextFrameLists(converter, use_color, quality)
    /\ out_size = <<0, 0>> /\ idx = 0 /\ written = <<>>
    /\ successful_frames = 0 /\ result = "none" /\ s_pc = "start"
    /\ preserve_audio \in BOOLEAN /\ moviepy \in BOOLEAN
    /\ audio_path = "None" /\ messages = {}
    /\ files \in {{}, {"old_output"}}
    /\ IdleQuant /\ IdleColor /\ IdleConvert /\ IdleMain
    /\ IdleScan /\ IdleResize

NextDeliver ==
    \/ ExportStart \/ SaveFrame \/ SaveRelease \/ CreateFrame \/ CreateRelease
    \/ SaveExtract \/ SaveCombine \/ SaveRename
SpecDeliver == InitDeliver /\ [][NextDeliver]_vars

(***************************************************************************)
(* SpecConvert: the sampling loop of VideoToASCII.convert_video (lines     *)
(* 482-537).  Times are whole seconds and fps a whole number, so that      *)
(* int(start_time * fps) is start_time * fps.                              *)
(***************************************************************************)
MaxSourceFrames == 9
MaxSkip == 3
MaxFps == 2
MaxStart == 1
MaxDuration == 2

KeepFrameBeforeCount(count, skip) == (count - 1) % skip = 0

\* lines 525-526: the frame counted as number `count` is kept
KeepFrame(count, skip) == count % skip = 0

\* end_frame of lines 498-500
end_frame ==
    IF duration # 0 THEN Min(total_frames, (start_time + duration) * fps)
    ELSE total_frames

\* start_frame of line 494 (0 when no start time is given)
start_frame == IF start_time > 0 THEN start_time * fps ELSE 0

\* a resized frame (2 columns, 2 rows) of black pixels, and one of white
\* pixels
DarkFrame == << <<Black, Black>>, <<Black, Black>> >>
BrightFrame == << <<White, White>>, <<White, White>> >>

InitConvert ==
    /\ converter = "VideoToASCII" /\ use_color = FALSE /\ quality = "medium"
    /\ fps \in 1..MaxFps
    /\ total_frames \in 0..MaxSourceFrames
    /\ start_time \in 0..MaxStart
    /\ duration \in 0..MaxDuration
    /\ skip_frames \in 1..MaxSkip
    /\ cap_pos = 0 /\ frame_count = 0 /\ kept = <<>> /\ v_pc = "open"
    /\ req_width = 0 /\ width = 0 /\ file_exists = TRUE /\ source_opens = TRUE
    /\ save_video = FALSE /\ exit_status = "running" /\ m_pc = "idle"
    /\ source = [k \in 1..total_frames |-> DarkFrame]
    /\ IdleQuant /\ IdleColor /\ IdleFrame /\ IdleSave /\ IdleTail
    /\ IdleScan /\ IdleResize

\* lines 482-514: a source that cannot be opened is reported and None is
\* returned; else the capture seeks to the start position
ConvertOpen ==
    /\ v_pc = "open"
    /\ IF source_opens
       THEN /\ cap_pos' = start_frame
            /\ v_pc' = "loop"
            /\ UNCHANGED messages
       ELSE /\ messages' = messages \cup {"Could not open video file"}
            /\ v_pc' = "returned"
            /\ UNCHANGED cap_pos
    /\ UNCHANGED <<scanVars, resizeVars, mainVars, preserve_audio, moviepy, audio_path, files,
                   cfgVars, quantVars, colorVars, frameVars, saveVars,
                   fps, total_frames, start_time, duration, skip_frames,
                   frame_count, kept>>

\* lines 517-531: one iteration that reads a frame and goes on
ConvertRead ==
    /\ v_pc = "loop"
    /\ cap_pos < total_frames                              \* ret
    /\ ~(duration # 0 /\ cap_pos + 1 >= end_frame)
    /\ cap_pos' = cap_pos + 1
    /\ frame_count' = frame_count + 1
    /\ kept' = IF KeepFrame(frame_count', skip_frames)
               THEN Append(kept, cap_pos) ELSE kept
    /\ ascii_frames' =
          IF KeepFrame(frame_count', skip_frames)
          THEN Append(ascii_frames,
                      frame_to_ascii(converter, use_color, quality, source[cap_pos + 1]))
          ELSE ascii_frames
    /\ UNCHANGED <<scanVars, resizeVars, mainVars, tailVars, cfgVars, quantVars, colorVars, frameVars,
                   out_size, idx, written, successful_frames, result, s_pc,
                   fps, total_frames, start_time, duration, skip_frames, v_pc>>

\* lines 518-520 and 537: the iteration that breaks; cap.release()
ConvertBreak ==
    /\ v_pc = "loop"
    /\ \/ cap_pos >= total_frames                          \* not ret
       \/ (duration # 0 /\ cap_pos + 1 >= end_frame)
    /\ cap_pos' = IF cap_pos < total_frames THEN cap_pos + 1 ELSE cap_pos
    /\ v_pc' = "done"
    /\ UNCHANGED <<scanVars, resizeVars, mainVars, tailVars, cfgVars, quantVars, colorVars, frameVars, saveVars,
                   fps, total_frames, start_time, duration, skip_frames,
                   frame_count, kept>>

NextConvert == ConvertOpen \/ ConvertRead \/ ConvertBreak
SpecConvert == InitConvert /\ [][NextConvert]_vars

(***************************************************************************)
(* SpecRun: one run of the command line of video_to_ascii.py, from the     *)
(* parsed arguments through convert_video and save_ascii_video to the exit *)
(* of main (lines 649-739, 479-572, 374-477).  The run is one with         *)
(* --no-play and without --output and --audio-only; Pillow is installed.   *)
(***************************************************************************)
\* the source of a run yields at most MaxRunFrames frames
MaxRunFrames == 3
\* requested widths range over 10 - WidthSlack .. 300 + WidthSlack
WidthSlack == 20

RunFrames == {DarkFrame, BrightFrame}

ClampWidthNoUpper(w) == IF w < 10 THEN 10 ELSE w

\* lines 658-660 of video_to_ascii.py: args.width after validation
ClampWidth(w) == IF w < 10 \/ w > 300 THEN Max(10, Min(300, w)) ELSE w

InitRun ==
    /\ converter = "VideoToASCII" /\ use_color = FALSE /\ quality = "medium"
    /\ req_width = 80 /\ width = 0
    /\ file_exists = TRUE
    /\ source_opens \in BOOLEAN
    /\ save_video \in BOOLEAN
    /\ source \in UNION {[1..n -> RunFrames] : n \in 0..MaxRunFrames}
    /\ total_frames = Len(source)
    /\ fps = 1 /\ start_time = 0 /\ duration = 0
    /\ skip_frames \in 1..MaxSkip
    /\ cap_pos = 0 /\ frame_count = 0 /\ kept = <<>> /\ v_pc = "idle"
    /\ preserve_audio \in BOOLEAN /\ moviepy \in BOOLEAN
    /\ audio_path = "None" /\ files = {} /\ messages = {}
    /\ exit_status = "running" /\ m_pc = "args"
    /\ IdleQuant /\ IdleColor /\ IdleFrame /\ IdleSave
    /\ IdleScan /\ IdleResize

\* lines 649-718 of main: the arguments are validated, the width is
\* clamped, and the converter is created and convert_video called
MainStart ==
    /\ m_pc = "args"
    /\ IF ~file_exists
       THEN /\ messages' = messages \cup {"Video file not found"}
            /\ exit_status' = 1 /\ m_pc' = "exited"
            /\ UNCHANGED <<width, v_pc>>
       ELSE IF skip_frames < 1
       THEN /\ messages' = messages \cup
                  {"Skip value must be at least 1"} \cup
                  (IF req_width < 10 \/ req_width > 300
                   THEN {"Width should be between 10 and 300"} ELSE {})
            /\ exit_status' = 1 /\ m_pc' = "exited"
            /\ UNCHANGED <<width, v_pc>>
       ELSE /\ messages' = messages \cup
                  (IF req_width < 10 \/ req_width > 300
                   THEN {"Width should be between 10 and 300"} ELSE {})
            /\ width' = ClampWidth(req_width)
            /\ v_pc' = "open" /\ m_pc' = "convert"
            /\ UNCHANGED exit_status
    /\ UNCHANGED <<scanVars, resizeVars, req_width, file_exists, source_opens, save_video, source,
                   preserve_audio, moviepy, audio_path, files,
                   cfgVars, quantVars, colorVars, frameVars, saveVars,
                   fps, total_frames, start_time, duration, skip_frames,
                   cap_pos, frame_count, kept>>

\* lines 539-572 of convert_video, after the loop: save_ascii_video is
\* called when a video is to be saved
ConvertSave ==
    /\ v_pc = "done"
    /\ IF save_video
       THEN s_pc' = "start" /\ v_pc' = "saving"
       ELSE v_pc' = "returned" /\ UNCHANGED s_pc
    /\ UNCHANGED <<scanVars, resizeVars, mainVars, tailVars, cfgVars, quantVars, colorVars, frameVars,
                   ascii_frames, out_size, idx, written, successful_frames, result,
                   fps, total_frames, start_time, duration, skip_frames,
                   cap_pos, frame_count, kept>>

\* lines 555-572: save_ascii_video has returned; its result is dropped and
\* convert_video returns ascii_frames; an exception goes on to the caller
ConvertReturn ==
    /\ v_pc = "saving" /\ s_pc = "returned"
    /\ v_pc' = IF result = "raised" THEN "raised" ELSE "returned"
    /\ UNCHANGED <<scanVars, resizeVars, mainVars, tailVars, cfgVars, quantVars, colorVars, frameVars,
                   saveVars, fps, total_frames, start_time, duration, skip_frames,
                   cap_pos, frame_count, kept>>

\* lines 721-739 of main: after convert_video
MainFinish ==
    /\ m_pc = "convert" /\ v_pc \in {"returned", "raised"}
    /\ IF v_pc = "raised"
       THEN /\ messages' = messages \cup {"Error during conversion"}
            /\ exit_status' = 1
       ELSE /\ messages' = messages \cup {"Conversion completed successfully"}
                  \cup (IF save_video THEN {"ASCII video saved to"} ELSE {})
            /\ exit_status' = 0
    /\ m_pc' = "exited"
    /\ UNCHANGED <<scanVars, resizeVars, req_width, width, file_exists, source_opens, save_video, source,
                   preserve_audio, moviepy, audio_path, files,
                   cfgVars, quantVars, colorVars, frameVars, saveVars, convVars>>

NextRun ==
    \/ MainStart \/ ConvertOpen \/ ConvertRead \/ ConvertBreak \/ ConvertSave
    \/ ExportStart \/ SaveFrame \/ SaveRelease
    \/ SaveExtract \/ SaveCombine \/ SaveRename
    \/ ConvertReturn \/ MainFinish
SpecRun == InitRun /\ [][NextRun]_vars

(***************************************************************************)
(* SpecMain: the argument validation of main for every requested width and *)
(* stride, on a source of one frame, without --save-video.                 *)
(***************************************************************************)
InitMain ==
    /\ converter = "VideoToASCII" /\ use_color = FALSE /\ quality = "medium"
    /\ req_width \in (10 - WidthSlack)..(300 + WidthSlack) /\ width = 0
    /\ file_exists \in BOOLEAN
    /\ source_opens = TRUE /\ save_video = FALSE
    /\ source = <<DarkFrame>>
    /\ total_frames = 1
    /\ fps = 1 /\ start_time = 0 /\ duration = 0
    /\ skip_frames \in 0..MaxSkip
    /\ cap_pos = 0 /\ frame_count = 0 /\ kept = <<>> /\ v_pc = "idle"
    /\ exit_status = "running" /\ m_pc = "args"
    /\ IdleQuant /\ IdleColor /\ IdleFrame /\ IdleSave /\ IdleTail
    /\ IdleScan /\ IdleResize

NextMain ==
    \/ MainStart \/ ConvertOpen \/ ConvertRead \/ ConvertBreak \/ ConvertSave
    \/ MainFinish
SpecMain == InitMain /\ [][NextMain]_vars

(***************************************************************************)
(* Claims about the renderer and the compositor.                           *)
(***************************************************************************)
IsUniform(frame) ==
    \A y \in 1..Len(frame) : \A x \in 1..Len(frame[y]) : frame[y][x] = frame[1][1]

\* C6: in colour mode, the text frame of a uniform frame of colour c is
\* composited (rectangle fill) to a bitmap whose pixels all have the one
\* colour inverse(forward(c)).
C6_UniformRoundTripSolid ==
    (f_pc = "composited" /\ converter = "VideoToASCII" /\ use_color /\ ~font
       /\ IsUniform(resized)) =>
        LET c == resized[1][1]
            solid == get_rgb_from_ansi(get_color_code(TRUE, c[1], c[2], c[3]))
        IN \A y \in 1..Len(img.cells) : \A x \in 1..Len(img.cells[y]) :
               img.cells[y][x].rgb = solid

\* C7: the compositor returns a bitmap of exactly W * cell_width by
\* H * cell_height pixels for the text frame of a frame of W columns and H
\* rows, colour on or off, whatever the glyphs.
C7_BitmapDimensions ==
    (f_pc = "composited" /\ converter \in {"VideoToASCII", "SimpleVideoToASCII"}) =>
        /\ img.width = Len(resized[1]) * char_width(converter, quality)
        /\ img.height = Len(resized) * char_height(converter, quality)

(***************************************************************************)
(* Claims about the video export.                                          *)
(***************************************************************************)
CompositeSize(k) ==
    ImageSize(Composite(converter, use_color, quality, font, ascii_frames[k], bg_color))

\* C8: in save_ascii_video every bitmap handed to the encoder has exactly
\* the pixel dimensions of the bitmap composited from ascii_frames[0]; a
\* frame that composites to another size is resized before it is written.
C8_WrittenSizeIsFirstSize ==
    converter = "VideoToASCII" =>
        \A k \in 1..Len(written) : written[k].size = CompositeSize(1)

C8_Witness ==
    /\ converter = "VideoToASCII" /\ s_pc = "released"
    /\ \E k \in 1..Len(written) :
          /\ written[k].index > 0
          /\ CompositeSize(written[k].index + 1) # CompositeSize(1)
          /\ written[k].size = CompositeSize(1)

\* C9: in the create_video of SimpleVideoToASCII and ReliableVideoToASCII
\* every bitmap written to the encoder has the dimensions of the first
\* one, those the encoder was opened with.
C9_CreateVideoOneSize ==
    converter \in {"SimpleVideoToASCII", "ReliableVideoToASCII"} =>
        \A k \in 1..Len(written) : written[k].size = out_size

(***************************************************************************)
(* Claims about frame sampling.                                            *)
(***************************************************************************)
\* C10: without a duration, with stride s on a source of n frames from the
\* start position, convert_video keeps exactly floor(n/s) frames: those at
\* the 0-based positions s-1, 2s-1, 3s-1, ... from the start, in order.
C10_KeepsEverySth ==
    (v_pc = "done" /\ duration = 0) =>
        LET n == Max(total_frames - start_frame, 0)
        IN kept = [k \in 1..(n \div skip_frames) |-> start_frame + k * skip_frames - 1]

C10_Witness ==
    /\ v_pc = "done" /\ duration = 0 /\ start_time = 0
    /\ total_frames = 9 /\ skip_frames = 3 /\ kept = <<2, 5, 8>>

(***************************************************************************)
(* Claims about a whole run.                                               *)
(***************************************************************************)
\* C11: across one run the k-th frame written to the encoder is the
\* composite of the k-th frame kept by sampling (entry k - 1 of
\* ascii_frames, the source frame kept[k]), for every k.
C11_KthWrittenIsKthKept ==
    (converter = "VideoToASCII" /\ m_pc \in {"convert", "exited"}) =>
        /\ Len(kept) = Len(ascii_frames)
        /\ \A k \in 1..Len(written) :
              /\ written[k].index = k - 1
              /\ k <= Len(kept)

\* the source could not be opened, the encoder could not be opened, or no
\* frame survived sampling
FatalCondition ==
    \/ "Could not open video file" \in messages
    \/ "Could not open video writer" \in messages
    \/ (source_opens /\ v_pc \in {"returned", "raised"} /\ kept = <<>>)

\* C12: after one of the three fatal conditions the run of main ends in a
\* failure: neither "Conversion completed successfully" nor "ASCII video
\* saved to" is printed, and the exit status is not the success status.
C12_FatalConditionFails ==
    (m_pc = "exited" /\ FatalCondition) =>
        /\ "Conversion completed successfully" \notin messages
        /\ "ASCII video saved to" \notin messages
        /\ exit_status # 0

(***************************************************************************)
(* Claims about audio and delivery.                                        *)
(***************************************************************************)
\* at least one frame was written: counted by save_ascii_video, handed to
\* out.write by create_video
FrameWritten ==
    IF converter = "VideoToASCII" THEN successful_frames > 0 ELSE written # <<>>

\* C13: whenever at least one frame was written, save_ascii_video (and the
\* create_video of ReliableVideoToASCII) ends with a video file at
\* output_path and returns True, also when audio was extracted and the
\* combination of video and audio failed.
C13_WrittenMeansDelivered ==
    (s_pc = "returned" /\ FrameWritten) =>
        result = "True" /\ "output" \in files

\* C14: audio wanted, moviepy available, at least one frame handed to the
\* encoder, and a source without audio track: save_ascii_video moves the
\* silent temporary video to output_path (replacing a file found there),
\* returns True and prints a no-audio message.
C14_NoAudioTrackStillDelivers ==
    (/\ converter = "VideoToASCII" /\ s_pc = "returned"
     /\ preserve_audio /\ moviepy /\ written # <<>>
     /\ "Could not extract audio" \notin messages
     /\ audio_path = "None") =>
        /\ result = "True"
        /\ "output" \in files /\ "old_output" \notin files
        /\ "No audio track found" \in messages
        /\ "ASCII video saved (no audio)" \in messages

\* C15: on every path on which save_ascii_video returns, neither temporary
\* file (temp_ascii_video.avi, temp_audio.wav) still exists.
C15_NoTemporaryFileLeft ==
    (converter = "VideoToASCII" /\ s_pc = "returned" /\ result \in {"True", "False"}) =>
        "temp_video" \notin files /\ "temp_audio" \notin files

\* the text frames of ascii_frames that composite to a bitmap with pixels
Rasterizes(k) == CompositeSize(k)[1] > 0 /\ CompositeSize(k)[2] > 0

\* C16: a text frame that fails to rasterize, the first one included, does
\* not abort save_ascii_video: the other frames are composited and
\* written, with the dimensions of the first frame that composited.
C16_FailedFrameIsSkipped ==
    (/\ converter = "VideoToASCII" /\ s_pc \in {"released", "returned"}
     /\ \E k \in 1..Len(ascii_frames) : Rasterizes(k)) =>
        LET first == CHOOSE k \in 1..Len(ascii_frames) :
                        Rasterizes(k) /\ \A j \in 1..(k - 1) : ~Rasterizes(j)
        IN /\ result # "raised"
           /\ "Could not open video writer" \in messages
              \/ /\ out_size = CompositeSize(first)
                 /\ \A k \in 1..Len(ascii_frames) :
                       Rasterizes(k) => \E j \in 1..Len(written) : written[j].index = k - 1

(***************************************************************************)
(* Claims about the alphabets and the colour mappings.                     *)
(***************************************************************************)
\* str.index: the 0-based position of the first occurrence of a glyph
IndexOfGlyph(chars, glyph) ==
    (CHOOSE i \in 1..Len(chars) :
        chars[i] = glyph /\ \A j \in 1..(i - 1) : chars[j] # glyph) - 1

\* C17: each of the four quality alphabets has N >= 2 pairwise distinct
\* glyphs, so that the lookup of the glyph chosen for a pixel gives back
\* the index it was chosen by.
C17_AlphabetGlyphsDistinct ==
    (q_pc = "quantized" /\ quality \in Qualities) =>
        LET chars == ascii_sets(quality)
        IN /\ Len(chars) >= 2
           /\ \A i, j \in 1..Len(chars) : i # j => chars[i] # chars[j]
           /\ IndexOfGlyph(chars, char) = char_index

\* C18: for a triple that is not r = g = b, the 256-colour round trip
\* returns (51*lr, 51*lg, 51*lb) with lx = floor(x*5/255); each returned
\* channel is in the level of the original one, does not exceed it and is
\* less than 51 below it.
C18_CubeRoundTrip ==
    (converter = "VideoToASCII" /\ use_color /\ c_pc = "decoded" /\ ~IsGray) =>
        /\ back.rgb = <<51 * Level(rgb[1]), 51 * Level(rgb[2]), 51 * Level(rgb[3])>>
        /\ \A ch \in 1..3 :
              /\ Level(back.rgb[ch]) = Level(rgb[ch])
              /\ back.rgb[ch] <= rgb[ch]
              /\ rgb[ch] - back.rgb[ch] < 51

C18_Witness ==
    /\ converter = "VideoToASCII" /\ use_color /\ c_pc = "decoded"
    /\ rgb = <<200, 50, 129>> /\ back.rgb = <<153, 0, 102>>

\* C19: the inverse mappings return a value for every code: white for the
\* empty code, a code without the 38;5; prefix, a non-numeric colour number
\* and a colour number outside 0..255 (get_rgb_from_ansi), and white for
\* every code missing from the table (ansi_to_rgb).
C19_InverseFailsSoft ==
    /\ (converter = "VideoToASCII" /\ c_pc = "decoded") =>
          /\ back.branch \in {"guard", "gray", "cube", "basic", "fallback"}
          /\ color_code \in ({<<>>} \cup NoPrefixCodes \cup NonNumericCodes
                              \cup OutOfRangeCodes) => back.rgb = White
    /\ (converter = "ReliableVideoToASCII" /\ c_pc = "decoded") =>
          /\ back.branch \in {"table", "fallback"}
          /\ color_code \notin color_map_keys => back.rgb = White

C19_Witness ==
    /\ converter = "VideoToASCII" /\ c_pc = "decoded"
    /\ color_code = Prefix256 \o <<"1", "a", "m">>
    /\ back = [branch |-> "fallback", rgb |-> White]

(***************************************************************************)
(* Claims about the command line.                                          *)
(***************************************************************************)
\* C20: the width handed to the converter is max(10, min(300, requested)):
\* a requested 5 becomes 10, and convert_video never runs with a width
\* outside 10..300.
C20_WidthClamped ==
    /\ m_pc = "convert" => width = Max(10, Min(300, req_width))
    /\ v_pc # "idle" => width \in 10..300

C20_Witness ==
    /\ req_width = 5 /\ width = 10 /\ v_pc = "returned" /\ kept = <<0>>

(***************************************************************************)
(* Claims about the text frame and the scan of the compositor.             *)
(***************************************************************************)
\* a line made of n glyphs, each directly preceded by one colour marker
RECURSIVE MarkedGlyphs(_, _)
MarkedGlyphs(line, n) ==
    IF n = 0 THEN line = <<>>
    ELSE /\ line # <<>> /\ line[1] = "ESC"
         /\ LET e == Find(line, "m", 0)
            IN /\ e # -1
               /\ Slice(line, 0, e + 1) # ResetMarker
               /\ RemoveMarkers(Slice(line, 0, e + 1)) = <<>>
               /\ Len(line) >= e + 2
               /\ line[e + 2] \notin {"ESC", "LF"}
               /\ MarkedGlyphs(SubSeq(line, e + 3, Len(line)), n - 1)

\* C21: a text frame of frame_to_ascii for a resized frame of W columns
\* and H rows has H lines of W glyphs (markers removed), each ended by a
\* line feed; in colour every glyph directly follows exactly one colour
\* marker and the frame ends with ESC[0m; without colour it holds no marker.
C21_TextFrameShape ==
    f_pc \in {"rendered", "composited"} =>
        LET W == Len(resized[1])
            H == Len(resized)
            n == Len(ascii_frame)
            body == IF use_color THEN SubSeq(ascii_frame, 1, n - 4) ELSE ascii_frame
            lines == Split(body, "LF")
        IN /\ use_color => (n >= 4 /\ SubSeq(ascii_frame, n - 3, n) = ResetMarker)
           /\ ~use_color => \A k \in 1..n : ascii_frame[k] # "ESC"
           /\ Len(lines) = H + 1 /\ lines[H + 1] = <<>>
           /\ \A y \in 1..H :
                 /\ Len(RemoveMarkers(lines[y])) = W
                 /\ use_color => MarkedGlyphs(lines[y], W)

C21_Witness ==
    /\ f_pc = "rendered" /\ converter = "ReliableVideoToASCII" /\ use_color
    /\ ascii_frame = <<"ESC", "[", "3", "0", "m", "@", "ESC", "[", "9", "7", "m", " ", "LF",
                       "ESC", "[", "0", "m">>

\* the text without leading and trailing line feeds, token by token
RECURSIVE LStripTokens(_)
LStripTokens(ts) ==
    IF ts # <<>> /\ Head(ts) = <<"LF">> THEN LStripTokens(Tail(ts)) ELSE ts
RECURSIVE RStripTokens(_)
RStripTokens(ts) ==
    IF ts # <<>> /\ ts[Len(ts)] = <<"LF">>
    THEN RStripTokens(SubSeq(ts, 1, Len(ts) - 1)) ELSE ts
\* its lines
RECURSIVE SplitTokens(_, _)
SplitTokens(ts, line) ==
    IF ts = <<>> THEN <<line>>
    ELSE IF Head(ts) = <<"LF">> THEN <<line>> \o SplitTokens(Tail(ts), <<>>)
    ELSE SplitTokens(Tail(ts), Append(line, Head(ts)))
TokenLines == SplitTokens(RStripTokens(LStripTokens(tokens)), <<>>)

\* the colour a colour marker of the texts stands for
TokenColour(t) == IF t = Marker256(196) THEN <<255, 0, 0>> ELSE <<0, 255, 0>>

DrawnCell(ch, fill) == IF font THEN TextCell(ch, fill) ELSE RectCell(fill)

\* The cells of one line by the colour state machine: a colour marker sets
\* the colour, a reset marker sets white, a glyph takes one cell in the
\* current colour; a character of the set skipped takes a cell without being
\* drawn, every other character is drawn like a glyph.
RECURSIVE LineCells(_, _, _)
LineCells(ts, current, skipped) ==
    IF ts = <<>> THEN <<>>
    ELSE LET t == Head(ts)
         IN IF t \in ColourTokens THEN LineCells(Tail(ts), TokenColour(t), skipped)
            ELSE IF t = ResetMarker THEN LineCells(Tail(ts), White, skipped)
            ELSE IF t \in skipped
                 THEN <<BgCell(bg_color)>> \o LineCells(Tail(ts), current, skipped)
            ELSE <<DrawnCell(t[1], current)>> \o LineCells(Tail(ts), current, skipped)

\* the grid of cells for the lines, every line starting in white and
\* filled up with background to the longest line
GridOf(skipped) ==
    LET rows == [y \in 1..Len(TokenLines) |-> LineCells(TokenLines[y], White, skipped)]
        n_cols == MaxLen(rows)
    IN [y \in 1..Len(rows) |->
           [x \in 1..n_cols |-> IF x <= Len(rows[y]) THEN rows[y][x]
                                ELSE BgCell(bg_color)]]

HasOddToken == \E k \in 1..Len(tokens) : tokens[k] \in OddTokens

\* C22: scanning a line, the fill colour of a glyph is the inverse mapping
\* of the latest 38;5;n marker before it on the line, or white when there
\* is none or a reset marker came after it; every line starts in white;
\* the characters of markers take no cell.
C22_ColourStateMachine ==
    (converter = "VideoToASCII" /\ f_pc = "composited" /\ s_pc = "idle"
     /\ resized = <<>> /\ ~HasOddToken) =>
        /\ img.cells = GridOf({})
        /\ img.width = (IF GridOf({}) = <<>> THEN 0 ELSE Len(GridOf({})[1]))
                          * char_width(converter, quality)

C22_Witness ==
    /\ f_pc = "composited" /\ ~font
    /\ tokens = <<Marker256(196), <<"@">>, <<"LF">>, <<"#">>>>
    /\ img.cells = << <<RectCell(<<255, 0, 0>>)>>, <<RectCell(White)>> >>

HasControlToken == \E k \in 1..Len(tokens) : tokens[k] = <<"BEL">>

\* C25: a non-printable character of a line (not part of a marker) is not
\* drawn but advances the cursor by one cell, so the later characters of the
\* line keep their columns.
C25_OddCharacterKeepsColumns ==
    (converter = "VideoToASCII" /\ f_pc = "composited" /\ s_pc = "idle"
     /\ resized = <<>> /\ HasControlToken) =>
        img.cells = GridOf({<<"BEL">>})

\* C23: composing a colour text frame, ReliableVideoToASCII moves to the
\* colour of each marker and gives the marker no cell: the glyph of column c
\* of row r is drawn in cell (r, c), filled with ansi_to_rgb of the marker
\* put before it.
C23_ReliableMarkerColours ==
    (f_pc = "composited" /\ converter = "ReliableVideoToASCII" /\ use_color) =>
        \A y \in 1..Len(resized) : \A x \in 1..Len(resized[y]) :
            LET px == resized[y][x]
            IN /\ y <= Len(img.cells) /\ x <= Len(img.cells[y])
               /\ img.cells[y][x].rgb
                     = ansi_to_rgb(get_color_code16(px[1], px[2], px[3]))

\* no pixel of the frame is rendered as the blank glyph
NoBlankGlyph ==
    \A y \in 1..Len(resized) : \A x \in 1..Len(resized[y]) :
        LET chars == ascii_chars(converter, quality)
        IN PyIndex(chars, GlyphIndex(BGR2GRAY(resized[y][x]), Len(chars))) # " "

\* C24: in monochrome mode VideoToASCII.ascii_to_image fills the cell of
\* every glyph of the alphabet with the gray level floor(index*255/(N-1)) of
\* the glyph's index in the alphabet.
C24_MonochromeGrayByIndex ==
    (f_pc = "composited" /\ converter = "VideoToASCII" /\ ~use_color
     /\ NoBlankGlyph) =>
        LET chars == ascii_chars(converter, quality)
        IN /\ Len(img.cells) = Len(resized)
           /\ \A y \in 1..Len(resized) :
                 /\ Len(img.cells[y]) = Len(resized[y])
                 /\ \A x \in 1..Len(resized[y]) :
                       LET glyph == PyIndex(chars, GlyphIndex(BGR2GRAY(resized[y][x]), Len(chars)))
                           level == (IndexOfGlyph(chars, glyph) * 255) \div (Len(chars) - 1)
                       IN img.cells[y][x].rgb = <<level, level, level>>

(***************************************************************************)
(* Claims about the duration window and the row count.                     *)
(***************************************************************************)
\* C27: with a duration whose window [start_frame, end_frame) holds d
\* source frames and stride s, convert_video samples all d frames of the
\* window: it keeps exactly floor(d/s) frames, those at the 0-based
\* positions s-1, 2s-1, ... of the window, as it would from a source of d
\* frames without a duration.
C27_WindowSampledWhole ==
    (v_pc = "done" /\ duration # 0) =>
        LET d == Max(end_frame - start_frame, 0)
        IN /\ kept = [k \in 1..(d \div skip_frames) |-> start_frame + k * skip_frames - 1]
           /\ Len(ascii_frames) = d \div skip_frames

\* the exact product W * (source_height / source_width) * aspect_correction
\* as a fraction ExactNum / ExactDen
ExactNum == width * src_height * AspectPercent(converter, quality)
ExactDen == src_width * 100

\* C26 (as stated): the number of rows is the exact product rounded to a
\* nearest integer, for every W in 10..300.
C26_RowsRounded ==
    z_pc = "resized" =>
        /\ 2 * new_height * ExactDen <= 2 * ExactNum + ExactDen
        /\ 2 * new_height * ExactDen >= 2 * ExactNum - ExactDen

\* C26 (amended): the number of rows is the product truncated to an integer,
\* never rounded up: it does not exceed the exact product and is at most one
\* below it, and exactly one below it only where the exact product is an
\* integer that the double-precision product falls short of.
C26_RowsTruncated ==
    z_pc = "resized" =>
        /\ new_height * ExactDen <= ExactNum
        /\ ExactNum <= (new_height + 1) * ExactDen
        /\ ExactNum = (new_height + 1) * ExactDen =>
              <<width, src_width, src_height, AspectPercent(converter, quality)>>
                  \in FloatJustBelow

C26_Witness ==
    /\ z_pc = "resized" /\ converter = "VideoToASCII" /\ quality = "medium"
    /\ width = 11 /\ src_width = 640 /\ src_height = 480
    /\ new_height = 4

====
